---- MODULE Spec2Model ----
(***************************************************************************)
(* Model of deno_checker (mod.ts): the check orchestrator `check`, the     *)
(* command executor `exec`, the printers start/complete/exit, and the      *)
(* version comparator `isUpdatedVersion`.                                  *)
(*                                                                         *)
(* Two specifications:                                                     *)
(*   Spec        - runs of check(...list) driven by the top-level await    *)
(*                 of the main module, over all small lists and            *)
(*                 environments;                                           *)
(*   SpecVersion - calls of isUpdatedVersion over a bounded set of         *)
(*                 version strings.                                        *)
(***************************************************************************)
EXTENDS Integers, Sequences, FiniteSets, TLC

\* ------------------------------------------------------------------ bounds
MaxItems == 3
MaxRuns == 2
\* longest list of the runs checked for termination
MaxLiveItems == 2
\* most lines of the stderr of `deno upgrade --dry-run`
MaxLines == 2
\* components a version string may carry after its third one
MaxExtra == 1

\* ----------------------------------------------------------- program state
VARIABLES
  list,        \* the CheckItems passed to check, as they were constructed
  command,     \* the `command` array of each CheckItem as it is now
  env,         \* the outside world: what the installed program answers
  pc,          \* where the caller / check is: idle, loop, returned, rejected
  run,         \* number of calls of check so far
  i,           \* index of the for-loop of check
  st,          \* per item of this run: state of its promise chain
  settle,      \* per item: the value / error its promise p settled with
  exited,      \* the process has terminated
  exitCode,    \* its status, once exited
  trace,       \* events of this run, in order
  out,         \* console lines of this run, in order
  spawned,     \* Deno.Command(...).output() calls of this run, in order
  afterCalls,  \* invocations of validators of this run, in order
  prevSpawned, \* `spawned` of the previous run
  prevOut,     \* `out` of the previous run
  nowParts,    \* the components nowVersion was written from
  newParts,    \* the components newVersion was written from
  nowVersion,  \* first argument of isUpdatedVersion
  newVersion,  \* second argument of isUpdatedVersion
  vpc,         \* SpecVersion: "input" before the call, "done" after it
  vresult      \* SpecVersion: the value isUpdatedVersion returned

vars == << list, command, env, pc, run, i, st, settle, exited, exitCode,
           trace, out, spawned, afterCalls, prevSpawned, prevOut,
           nowParts, newParts, nowVersion, newVersion, vpc, vresult >>

checkVars == << list, command, env, pc, run, i, st, settle, exited, exitCode,
                trace, out, spawned, afterCalls, prevSpawned, prevOut >>

versionVars == << nowParts, newParts, nowVersion, newVersion, vpc, vresult >>

\* ------------------------------------------------------------ ExecResult
ExecResult(code, stdout, stderr) ==
  [code |-> code, stdout |-> stdout, stderr |-> stderr]

\* the result check hands to the validator of an item without command
SyntheticResultNonZero == ExecResult(1, "", "")
SyntheticResult == ExecResult(0, "", "")

\* ------------------------------------------------------------ environment
\* what the outside world answers: `publish` to `deno publish ...` (and to
\* any other deno subcommand but upgrade), `upgrade` to `deno upgrade ...`,
\* `git` to git, which may not be installed at all; `lines` are the lines
\* the stderr of `upgrade` was written from
Env(publish, upgrade, lines, git, gitInstalled) ==
  [publish |-> publish, upgrade |-> upgrade, lines |-> lines, git |-> git,
   gitInstalled |-> gitInstalled]

PublishOk == ExecResult(0, "Success", "")
PublishFailed == ExecResult(1, "", "error: publish failed")

\* environments of the runs of arbitrary lists: the publish dry-run passes
\* or fails
Envs == { Env(r, ExecResult(0, "", << >>), << >>,
                ExecResult(0, << >>, ""), TRUE) :
            r \in {PublishOk, PublishFailed} }

Installed == {"deno", "git"}

\* the program can be started
Launchable(e, program) ==
  program \in Installed /\ (program = "git" => e.gitInstalled)

\* what a program that starts answers
Answer(e, program, args) ==
  IF program = "git" THEN e.git
  ELSE IF Len(args) > 0 /\ args[1] = "upgrade" THEN e.upgrade
  ELSE e.publish

\* what command.shift() yields on an empty array
Undefined == "undefined"

\* message of the error Deno.Command(...).output() rejects with
LaunchErrorMessage(program) ==
  CASE program = "nosuch"    -> "Failed to spawn 'nosuch'"
    [] program = "publish"   -> "Failed to spawn 'publish'"
    [] program = "--dry-run" -> "Failed to spawn '--dry-run'"
    [] program = "upgrade"   -> "Failed to spawn 'upgrade'"
    [] program = "describe"  -> "Failed to spawn 'describe'"
    [] program = "git"       -> "Failed to spawn 'git'"
    [] OTHER                 -> "Failed to spawn 'undefined'"

\* an executor in the manner of a shell: a program that cannot be started
\* is reported as exit code 127
OutputAsExitCode(e, program, args) ==
  IF ~Launchable(e, program)
    THEN [launched |-> TRUE, message |-> "",
          result |-> ExecResult(127, "", LaunchErrorMessage(program))]
    ELSE [launched |-> TRUE, message |-> "",
          result |-> Answer(e, program, args)]

\* outcome of Deno.Command(program, {args}).output(), decoded
Output(e, program, args) ==
  IF ~Launchable(e, program)
    THEN [launched |-> FALSE, message |-> LaunchErrorMessage(program),
          result |-> ExecResult(0, "", "")]
    ELSE [launched |-> TRUE, message |-> "",
          result |-> Answer(e, program, args)]

Range(s) == { s[k] : k \in DOMAIN s }

Event(ev, n) == [ev |-> ev, item |-> n]

NoSettle == [type |-> "none", void |-> FALSE, msg |-> ""]

\* ------------------------------------------------------ isUpdatedVersion
\* A string is the sequence of its characters.
DigitChars == << "0", "1", "2", "3", "4", "5", "6", "7", "8", "9" >>

IsDigit(c) == c \in Range(DigitChars)

DigitValue(c) == (CHOOSE d \in 1..10 : DigitChars[d] = c) - 1

\* s.split('.')
RECURSIVE Split(_)
Split(s) ==
  IF \A k \in DOMAIN s : s[k] # "."
    THEN << s >>
    ELSE LET d == CHOOSE k \in DOMAIN s :
                    s[k] = "." /\ \A j \in 1..(k - 1) : s[j] # "."
         IN << SubSeq(s, 1, d - 1) >> \o Split(SubSeq(s, d + 1, Len(s)))

\* v.replace(/[^0-9]+/g, '')
StripNonDigits(s) == SelectSeq(s, IsDigit)

\* the value of parseInt that is not a number
NaN == -1

\* parseInt of a string of digits
RECURSIVE ParseDigits(_)
ParseDigits(s) ==
  IF Len(s) = 0 THEN 0
  ELSE 10 * ParseDigits(SubSeq(s, 1, Len(s) - 1)) + DigitValue(s[Len(s)])

ParseIntZero(s) == ParseDigits(s)
ParseInt(s) == IF Len(s) = 0 THEN NaN ELSE ParseDigits(s)

\* nowVersion.split('.').map((v) => parseInt(v.replace(/[^0-9]+/g, '')))
ParseVersion(s) ==
  LET parts == Split(s) IN
  [k \in DOMAIN parts |-> ParseInt(StripNonDigits(parts[k]))]

\* v[k] of an array: undefined past its end, and undefined compares as NaN
At(v, k) == IF k \in DOMAIN v THEN v[k] ELSE NaN

\* a < b of two numbers: false as soon as one of them is NaN
LessOrEqual(a, b) == a # NaN /\ b # NaN /\ a <= b
Less(a, b) == a # NaN /\ b # NaN /\ a < b

\* number of components the loop looks at: for (let i = 0; i < 3; ++i)
ScanLength == 3

\* the for loop from index k (1-based here) on
RECURSIVE Scan(_, _, _)
Scan(v1, v2, k) ==
  IF k > ScanLength THEN FALSE
  ELSE IF Less(At(v1, k), At(v2, k)) THEN TRUE
  ELSE Scan(v1, v2, k + 1)

\* a comparator that stops at the first index where the versions differ
RECURSIVE ScanLexicographic(_, _, _)
ScanLexicographic(v1, v2, k) ==
  IF k > ScanLength THEN FALSE
  ELSE IF Less(At(v1, k), At(v2, k)) THEN TRUE
  ELSE IF Less(At(v2, k), At(v1, k)) THEN FALSE
  ELSE ScanLexicographic(v1, v2, k + 1)

isUpdatedVersionLexicographic(now, new) ==
  ScanLexicographic(ParseVersion(now), ParseVersion(new), 1)

isUpdatedVersion(now, new) == Scan(ParseVersion(now), ParseVersion(new), 1)

\* ------------------------------------------------- version strings tried
\* decimal notation of a natural number
RECURSIVE Decimal(_)
Decimal(n) ==
  IF n < 10 THEN << DigitChars[n + 1] >>
  ELSE Decimal(n \div 10) \o << DigitChars[(n % 10) + 1] >>

\* numbers written as components
Values == {0, 1, 9, 10}

\* a component: its text, whether it has a digit, whether it is only digits,
\* and the number its digits write
Part(text, hasDigit, numeric, value) ==
  [text |-> text, hasDigit |-> hasDigit, numeric |-> numeric, value |-> value]

NumericParts == { Part(Decimal(v), TRUE, TRUE, v) : v \in Values }

OddParts == { Part(<< "v", "1" >>, TRUE, FALSE, 1),
              Part(<< "x" >>, FALSE, FALSE, 0),
              Part(<< >>, FALSE, FALSE, 0) }

ExtraParts == { Part(<< "5" >>, TRUE, TRUE, 5) }

Parts == NumericParts \cup OddParts

\* one to three components, or three and up to MaxExtra trailing ones
PartSeqs ==
  UNION { [1..k -> Parts] : k \in 1..3 }
  \cup { p \o x : p \in [1..3 -> Parts],
                  x \in UNION { [1..k -> ExtraParts] : k \in 1..MaxExtra } }

\* the components joined by '.'
RECURSIVE Join(_)
Join(parts) ==
  IF Len(parts) = 0 THEN << >>
  ELSE IF Len(parts) = 1 THEN parts[1].text
  ELSE parts[1].text \o << "." >> \o Join(Tail(parts))

\* -------------------------------------------------------------- CheckItems
NoCommand == [present |-> FALSE, argv |-> << >>]
Command(argv) == [present |-> TRUE, argv |-> argv]

Commands == { NoCommand,
              Command(<<"deno", "publish", "--dry-run">>),
              Command(<<"nosuch">>) }

\* validators: five caller-written ones and the one of createJsrPublishChecker
AfterKinds == {"void", "msg", "empty", "reject", "throw", "jsr"}

Resolve(isVoid, msg) == [type |-> "resolve", void |-> isVoid, msg |-> msg]
Reject(msg) == [type |-> "reject", void |-> FALSE, msg |-> msg]
Throw(msg) == [type |-> "throw", void |-> FALSE, msg |-> msg]

\* after(result) of a JSR check that reports stdout
JsrAfterStdout(result) ==
  IF result.code = 0 THEN Resolve(TRUE, "") ELSE Reject(result.stdout)

\* after(result) of createJsrPublishChecker
JsrAfter(result) ==
  IF result.code = 0 THEN Resolve(TRUE, "") ELSE Reject(result.stderr)

\* ---- text of a command's output: the sequence of its characters, where
\* the words "Found latest stable version " count as one character
FoundPrefix == "Found latest stable version "

\* \s of a regular expression
IsSpace(c) == c \in {" ", "\n", "\r", "\t"}

NotSpace(c) == ~IsSpace(c)

\* s.split('\n')
RECURSIVE SplitLines(_)
SplitLines(s) ==
  IF \A k \in DOMAIN s : s[k] # "\n"
    THEN << s >>
    ELSE LET d == CHOOSE k \in DOMAIN s :
                    s[k] = "\n" /\ \A j \in 1..(k - 1) : s[j] # "\n"
         IN << SubSeq(s, 1, d - 1) >> \o SplitLines(SubSeq(s, d + 1, Len(s)))

\* line.trim()
RECURSIVE TrimStart(_)
TrimStart(s) ==
  IF Len(s) > 0 /\ IsSpace(s[1]) THEN TrimStart(Tail(s)) ELSE s

RECURSIVE TrimEnd(_)
TrimEnd(s) ==
  IF Len(s) > 0 /\ IsSpace(s[Len(s)])
    THEN TrimEnd(SubSeq(s, 1, Len(s) - 1)) ELSE s

Trim(s) == TrimEnd(TrimStart(s))

\* [0-9.]
IsVersionChar(c) == IsDigit(c) \/ c = "."

\* where the v of /^Found latest stable version .*v([0-9.]+).*$/ can stand
VPositions(line) ==
  { k \in 2..(Len(line) - 1) : line[k] = "v" /\ IsVersionChar(line[k + 1]) }

\* the regular expression matches the line ('.' matches no line terminator)
MatchesFound(line) ==
  /\ Len(line) > 0
  /\ line[1] = FoundPrefix
  /\ \A k \in 2..Len(line) : line[k] \notin {"\n", "\r"}
  /\ VPositions(line) # {}

\* $1: the first .* is greedy, so v is the last one that digits or dots
\* follow, and the group takes all of them
Group1(line) ==
  LET v == CHOOSE k \in VPositions(line) : \A j \in VPositions(line) : j <= k
      e == CHOOSE j \in (v + 1)..Len(line) :
             /\ \A m \in (v + 1)..j : IsVersionChar(line[m])
             /\ (j = Len(line) \/ ~IsVersionChar(line[j + 1]))
  IN SubSeq(line, v + 1, e)

\* line.replace(/^Found latest stable version .*v([0-9.]+).*$/, '$1')
ReplaceFound(line) == IF MatchesFound(line) THEN Group1(line) ELSE line

\* a forEach that keeps the first version found
RECURSIVE ScanLinesFirst(_, _, _)
ScanLinesFirst(lines, k, version) ==
  IF k > Len(lines) THEN version
  ELSE LET line == Trim(lines[k])
           v    == ReplaceFound(line)
       IN IF v # line /\ \A m \in DOMAIN v : IsVersionChar(v[m])
               /\ version = << >>
            THEN ScanLinesFirst(lines, k + 1, v)
            ELSE ScanLinesFirst(lines, k + 1, version)

\* the forEach over the lines, from line k on: `version` is overwritten by
\* every line that yields one
RECURSIVE ScanLines(_, _, _)
ScanLines(lines, k, version) ==
  IF k > Len(lines) THEN version
  ELSE LET line == Trim(lines[k])
           v    == ReplaceFound(line)
       IN IF v # line /\ \A m \in DOMAIN v : IsVersionChar(v[m])
            THEN ScanLines(lines, k + 1, v)
            ELSE ScanLines(lines, k + 1, version)

\* `Found latest version: ${version}\nExec \`deno upgrade\``
\* (a string of this notation cannot hold a backquote: ' stands for it)
FoundMessage(version) ==
  << "Found latest version: ", version, "\nExec 'deno upgrade'" >>

\* after(result) of createDenoVersionChecker
DenoVersionAfter(result) ==
  LET version == ScanLines(SplitLines(result.stderr), 1, << >>) IN
  IF version = << >>
    THEN Resolve(FALSE, "This deno version is latest")
    ELSE Reject(FoundMessage(version))

\* result.stdout.replace(/\s/g, '')
Tag(stdout) == SelectSeq(stdout, NotSpace)

NotUpdatedMessage ==
  "VERSION is not updated. Update deno.json & deno task version"

\* after(result) of createVersionChecker(version)
VersionAfter(version, result) ==
  IF ~isUpdatedVersion(Tag(result.stdout), version)
    THEN Reject(NotUpdatedMessage)
    ELSE Resolve(TRUE, "")

\* what the validator of an item writes to the console while it runs:
\* console.log(`Now tag: ${tag} Now ver: ${version}`) of createVersionChecker
AfterLog(item, result) ==
  IF item.after = "version"
    THEN << << "Now tag: ", Tag(result.stdout), " Now ver: ", item.version >> >>
    ELSE << >>

\* what calling check.after(result) of an item does: the promise it returns
\* settles as "resolve" / "reject", or the call itself throws
After(item, result) ==
  CASE item.after = "void"        -> Resolve(TRUE, "")
    [] item.after = "msg"         -> Resolve(FALSE, "fine")
    [] item.after = "empty"       -> Resolve(FALSE, "")
    [] item.after = "reject"      -> Reject("rejected by validator")
    [] item.after = "throw"       -> Throw("thrown by validator")
    [] item.after = "jsr"         -> JsrAfter(result)
    [] item.after = "denoVersion" -> DenoVersionAfter(result)
    [] item.after = "version"     -> VersionAfter(item.version, result)

\* a CheckItem as constructed: `command` is the array it was given, `version`
\* the argument of createVersionChecker (empty for the other items)
CheckItem(name, cmd, after, version) ==
  [name |-> name, command |-> cmd, after |-> after, version |-> version]

ItemName(kind) ==
  CASE kind = "void"   -> "void check"
    [] kind = "msg"    -> "msg check"
    [] kind = "empty"  -> "empty check"
    [] kind = "reject" -> "reject check"
    [] kind = "throw"  -> "throw check"
    [] kind = "jsr"    -> "JSR Publish check"

Items == { CheckItem(ItemName(k), c, k, << >>) :
             k \in AfterKinds, c \in Commands }

\* createDenoVersionChecker()
DenoVersionChecker ==
  CheckItem("Deno version check",
            Command(<< "deno", "upgrade", "--dry-run" >>), "denoVersion", << >>)

\* createVersionChecker(version)
VersionChecker(version) ==
  CheckItem("VERSION check",
            Command(<< "git", "describe", "--tags", "--abbrev=0" >>),
            "version", version)

\* createJsrPublishChecker()
JsrPublishChecker ==
  CheckItem("JSR Publish check",
            Command(<< "deno", "publish", "--dry-run" >>), "jsr", << >>)

\* a main module that tries the publish first
MainListPublishFirst(version) ==
  << JsrPublishChecker, DenoVersionChecker, VersionChecker(version) >>

\* the arguments of check in the main module
MainList(version) ==
  << DenoVersionChecker, VersionChecker(version), JsrPublishChecker >>

\* --------------------------------------- answers tried in the main module
\* a line of stderr: its text, whether it is a "Found latest stable version
\* ... v<digits and dots>" line (leading and trailing blanks aside), and the
\* version it then tells
Line(text, found, version) ==
  [text |-> text, found |-> found, version |-> version]

UpgradeLines ==
  { Line(<< "L", "o", "o", "k" >>, FALSE, << >>),
    Line(<< >>, FALSE, << >>),
    Line(<< FoundPrefix, "v", "1", ".", "9", ".", "0" >>, TRUE,
         << "1", ".", "9", ".", "0" >>),
    Line(<< FoundPrefix, "v", "2" >>, TRUE, << "2" >>),
    Line(<< " ", FoundPrefix, "v", "3", " " >>, TRUE, << "3" >>),
    Line(<< FoundPrefix, "v", "4", "\r" >>, TRUE, << "4" >>),
    Line(<< FoundPrefix, "v", "1", " ", "(", "v", "9", ")" >>, TRUE, << "9" >>),
    Line(<< FoundPrefix, "v", "." >>, TRUE, << "." >>),
    Line(<< FoundPrefix, "1", ".", "0" >>, FALSE, << >>),
    Line(<< FoundPrefix, "v", "x" >>, FALSE, << >>),
    Line(<< ":", FoundPrefix, "v", "1" >>, FALSE, << >>) }

\* the lines joined by '\n'
RECURSIVE JoinLines(_)
JoinLines(lines) ==
  IF Len(lines) = 0 THEN << >>
  ELSE IF Len(lines) = 1 THEN lines[1].text
  ELSE lines[1].text \o << "\n" >> \o JoinLines(Tail(lines))

LineSeqs == UNION { [1..k -> UpgradeLines] : k \in 0..MaxLines }

\* `deno upgrade --dry-run` that finds nothing newer
UpToDate == ExecResult(0, "", << "L", "o", "o", "k" >>)
UpToDateLines == << Line(<< "L", "o", "o", "k" >>, FALSE, << >>) >>

\* answers of `deno publish --dry-run`
PublishAnswers ==
  { ExecResult(c, o, e) : c \in {0, 1, 2}, o \in {"", "Success"},
                          e \in {"", "error: publish failed"} }

\* versions of three numbers
Triples == [1..3 -> NumericParts]

\* `git describe --tags --abbrev=0`: the tag v<parts> and a newline, or no
\* tag at all
GitAnswer(parts) ==
  IF Len(parts) = 0
    THEN ExecResult(128, << >>, "fatal: No names found")
    ELSE ExecResult(0, << "v" >> \o Join(parts) \o << "\n" >>, "")

V(a, b, c) ==
  << Part(Decimal(a), TRUE, TRUE, a), Part(Decimal(b), TRUE, TRUE, b),
     Part(Decimal(c), TRUE, TRUE, c) >>

\* ------------------------------------------------------------------- Init
InitVersionIdle ==
  /\ nowParts = << >>
  /\ newParts = << >>
  /\ nowVersion = << >>
  /\ newVersion = << >>
  /\ vpc = "off"
  /\ vresult = FALSE

\* before the first call of check, for the lists of at most `longest` items
InitRun ==
  /\ command = [n \in DOMAIN list |-> list[n].command]
  /\ pc = "idle"
  /\ run = 0
  /\ i = 0
  /\ st = [n \in DOMAIN list |-> "pending"]
  /\ settle = [n \in DOMAIN list |-> NoSettle]
  /\ exited = FALSE
  /\ exitCode = 0
  /\ trace = << >>
  /\ out = << >>
  /\ spawned = << >>
  /\ afterCalls = << >>
  /\ prevSpawned = << >>
  /\ prevOut = << >>

InitLists(longest) ==
  /\ \E n \in 0..longest : list \in [1..n -> Items]
  /\ env \in Envs
  /\ InitRun
  /\ InitVersionIdle

Init == InitLists(MaxItems)

InitLive == InitLists(MaxLiveItems)

\* --------------------------------------------------------------- printers
\* start(name): console.log(`== ${name} `.padEnd(80, '='))
HeaderLine(name) == << "== ", name, " ", "=====" >>

\* a completion line that leaves the message out
OkLineNoMessage(name, value) == << "OK ... ", name >>

\* complete(`OK ... ${check.name}${msg ? ': ' + msg : ''}`)
OkLine(name, value) ==
  IF ~value.void /\ value.msg # ""
    THEN << "OK ... ", name, ": ", value.msg >>
    ELSE << "OK ... ", name >>

\* exit(message): console.error(`[Error] ${message}`)
ErrorLine(message) == << "[Error] ", message >>

\* exit(message): Deno.exit(1)
ExitStatusZero == 0
ExitStatus == 1

\* ------------------------------------------------------------------ exec
\* command.shift(): the program, and the array that is left (the args)
Shift(argv) ==
  IF Len(argv) = 0
    THEN [program |-> Undefined, args |-> << >>]
    ELSE [program |-> Head(argv), args |-> Tail(argv)]

\* the spawn of item n in this run
SpawnOf(n) == spawned[CHOOSE k \in DOMAIN spawned : spawned[k].item = n]

\* the validator call of item n in this run
CallOf(n) ==
  afterCalls[CHOOSE k \in DOMAIN afterCalls : afterCalls[k].item = n]

\* ----------------------------------------------------------------- check
\* caller: await check(...list)
CallCheck ==
  /\ ~exited
  /\ pc \in {"idle", "returned"}
  /\ run < MaxRuns
  /\ run' = run + 1
  /\ i' = 1
  /\ pc' = IF Len(list) = 0 THEN "returned" ELSE "loop"
  /\ st' = [n \in DOMAIN list |-> "pending"]
  /\ settle' = [n \in DOMAIN list |-> NoSettle]
  /\ prevSpawned' = spawned
  /\ prevOut' = out
  /\ trace' = << >>
  /\ out' = << >>
  /\ spawned' = << >>
  /\ afterCalls' = << >>
  /\ UNCHANGED << list, command, env, exited, exitCode >>
  /\ UNCHANGED versionVars

\* loop body up to the first suspension: start(check.name), then either the
\* synchronous part of exec(check.command) or the call of check.after
StartItem ==
  /\ ~exited
  /\ pc = "loop"
  /\ st[i] = "pending"
  /\ out' = Append(out, HeaderLine(list[i].name))
  /\ IF command[i].present
       THEN LET sh == Shift(command[i].argv) IN
            /\ command' = [command EXCEPT ![i].argv = sh.args]
            /\ spawned' = Append(spawned,
                   [item |-> i, program |-> sh.program, args |-> sh.args])
            /\ trace' = trace \o << Event("start", i), Event("spawn", i) >>
            /\ st' = [st EXCEPT ![i] = "exec"]
            /\ UNCHANGED << afterCalls, pc, settle >>
       ELSE LET o == After(list[i], SyntheticResult) IN
            /\ afterCalls' = Append(afterCalls,
                   [item |-> i, result |-> SyntheticResult])
            /\ trace' = trace \o << Event("start", i), Event("after", i) >>
            /\ IF o.type = "throw"
                 THEN /\ pc' = "rejected"
                      /\ st' = [st EXCEPT ![i] = "thrown"]
                      /\ settle' = [settle EXCEPT ![i] = o]
                 ELSE /\ st' = [st EXCEPT ![i] = "after"]
                      /\ UNCHANGED << pc, settle >>
            /\ UNCHANGED << command, spawned >>
  /\ UNCHANGED << list, env, run, i, exited, exitCode, prevSpawned, prevOut >>
  /\ UNCHANGED versionVars

\* an executor that takes a non-zero exit code for a failure of its own and
\* rejects without calling the validator
ExecSettleSkipOnError(n) ==
  /\ ~exited
  /\ st[n] = "exec"
  /\ LET sp == SpawnOf(n)
         o  == Output(env, sp.program, sp.args)
     IN IF ~o.launched \/ o.result.code # 0
          THEN /\ trace' = Append(trace,
                      Event(IF o.launched THEN "done" ELSE "launchfail", n))
               /\ st' = [st EXCEPT ![n] = "rejected"]
               /\ settle' = [settle EXCEPT ![n] =
                     Reject(IF o.launched THEN o.result.stderr ELSE o.message)]
               /\ UNCHANGED afterCalls
          ELSE LET a == After(list[n], o.result) IN
               /\ trace' = trace \o << Event("done", n), Event("after", n) >>
               /\ afterCalls' = Append(afterCalls,
                      [item |-> n, result |-> o.result])
               /\ IF a.type = "throw"
                    THEN /\ st' = [st EXCEPT ![n] = "rejected"]
                         /\ settle' = [settle EXCEPT ![n] = Reject(a.msg)]
                    ELSE /\ st' = [st EXCEPT ![n] = "after"]
                         /\ UNCHANGED settle
  /\ UNCHANGED << list, command, env, pc, run, i, exited, exitCode, out,
                  spawned, prevSpawned, prevOut >>
  /\ UNCHANGED versionVars

\* the subprocess of item n is over: exec resolves and .then(check.after)
\* calls the validator, or output() rejects and the validator is skipped
ExecSettle(n) ==
  /\ ~exited
  /\ st[n] = "exec"
  /\ LET sp == SpawnOf(n)
         o  == Output(env, sp.program, sp.args)
     IN IF ~o.launched
          THEN /\ trace' = Append(trace, Event("launchfail", n))
               /\ st' = [st EXCEPT ![n] = "rejected"]
               /\ settle' = [settle EXCEPT ![n] = Reject(o.message)]
               /\ UNCHANGED afterCalls
          ELSE LET a == After(list[n], o.result) IN
               /\ trace' = trace \o << Event("done", n), Event("after", n) >>
               /\ afterCalls' = Append(afterCalls,
                      [item |-> n, result |-> o.result])
               /\ IF a.type = "throw"
                    THEN /\ st' = [st EXCEPT ![n] = "rejected"]
                         /\ settle' = [settle EXCEPT ![n] = Reject(a.msg)]
                    ELSE /\ st' = [st EXCEPT ![n] = "after"]
                         /\ UNCHANGED settle
  /\ UNCHANGED << list, command, env, pc, run, i, exited, exitCode, out,
                  spawned, prevSpawned, prevOut >>
  /\ UNCHANGED versionVars

\* the promise the validator of item n returned settles
AfterSettle(n) ==
  /\ ~exited
  /\ st[n] = "after"
  /\ LET a == After(list[n], CallOf(n).result) IN
       /\ st' = [st EXCEPT ![n] =
                   IF a.type = "resolve" THEN "resolved" ELSE "rejected"]
       /\ settle' = [settle EXCEPT ![n] = a]
  /\ out' = out \o AfterLog(list[n], CallOf(n).result)
  /\ UNCHANGED << list, command, env, pc, run, i, exited, exitCode, trace,
                  spawned, afterCalls, prevSpawned, prevOut >>
  /\ UNCHANGED versionVars

\* p.then((msg) => { complete(...) })
OnFulfilled(n) ==
  /\ ~exited
  /\ st[n] = "resolved"
  /\ out' = Append(out, OkLine(list[n].name, settle[n]))
  /\ trace' = Append(trace, Event("ok", n))
  /\ st' = [st EXCEPT ![n] = "ok"]
  /\ UNCHANGED << list, command, env, pc, run, i, settle, exited, exitCode,
                  spawned, afterCalls, prevSpawned, prevOut >>
  /\ UNCHANGED versionVars

\* a handler that prints the error and lets the run go on
OnRejectedContinue(n) ==
  /\ ~exited
  /\ st[n] = "rejected"
  /\ out' = Append(out, ErrorLine(settle[n].msg))
  /\ trace' = Append(trace, Event("error", n))
  /\ st' = [st EXCEPT ![n] = "ok"]
  /\ UNCHANGED << list, command, env, pc, run, i, settle, exited, exitCode,
                  spawned, afterCalls, prevSpawned, prevOut >>
  /\ UNCHANGED versionVars

\* .catch((error) => { exit(error.message) })
OnRejected(n) ==
  /\ ~exited
  /\ st[n] = "rejected"
  /\ out' = Append(out, ErrorLine(settle[n].msg))
  /\ trace' = Append(trace, Event("error", n))
  /\ st' = [st EXCEPT ![n] = "failed"]
  /\ exited' = TRUE
  /\ exitCode' = ExitStatus
  /\ UNCHANGED << list, command, env, pc, run, i, settle, spawned,
                  afterCalls, prevSpawned, prevOut >>
  /\ UNCHANGED versionVars

\* `await`: the loop goes on only when the chain of item n has completed
AwaitedNoWait(n) == TRUE
Awaited(n) == st[n] = "ok"

\* a loop that runs the same item again instead of going on
ResumeRestart ==
  /\ ~exited
  /\ pc = "loop"
  /\ st[i] # "pending"
  /\ Awaited(i)
  /\ st' = [st EXCEPT ![i] = "pending"]
  /\ UNCHANGED << list, command, env, pc, run, i, settle, exited, exitCode,
                  trace, out, spawned, afterCalls, prevSpawned, prevOut >>
  /\ UNCHANGED versionVars

\* the await of the loop body returns: next iteration, or check returns
Resume ==
  /\ ~exited
  /\ pc = "loop"
  /\ st[i] # "pending"
  /\ Awaited(i)
  /\ IF i < Len(list)
       THEN i' = i + 1 /\ pc' = pc
       ELSE i' = i /\ pc' = "returned"
  /\ UNCHANGED << list, command, env, run, st, settle, exited, exitCode,
                  trace, out, spawned, afterCalls, prevSpawned, prevOut >>
  /\ UNCHANGED versionVars

\* no promise chain of this run is still to be run by the event loop
Quiescent ==
  \A n \in DOMAIN list : st[n] \in {"pending", "ok", "failed", "thrown"}

\* check(...) rejected and the top-level await of the caller rethrows:
\* the runtime reports the uncaught error and ends with status 1
Uncaught ==
  /\ ~exited
  /\ pc = "rejected"
  /\ Quiescent
  /\ exited' = TRUE
  /\ exitCode' = 1
  /\ trace' = Append(trace, Event("uncaught", i))
  /\ UNCHANGED << list, command, env, pc, run, i, st, settle, out, spawned,
                  afterCalls, prevSpawned, prevOut >>
  /\ UNCHANGED versionVars

\* the main module has run to its end: the process ends with status 0
ProcessEnd ==
  /\ ~exited
  /\ pc = "returned"
  /\ Quiescent
  /\ exited' = TRUE
  /\ exitCode' = 0
  /\ UNCHANGED << list, command, env, pc, run, i, st, settle, trace, out,
                  spawned, afterCalls, prevSpawned, prevOut >>
  /\ UNCHANGED versionVars

Next ==
  \/ CallCheck
  \/ StartItem
  \/ \E n \in DOMAIN list : ExecSettle(n)
  \/ \E n \in DOMAIN list : AfterSettle(n)
  \/ \E n \in DOMAIN list : OnFulfilled(n)
  \/ \E n \in DOMAIN list : OnRejected(n)
  \/ Resume
  \/ Uncaught
  \/ ProcessEnd

Spec == Init /\ [][Next]_vars

\* The event loop runs every callback that is ready; every subprocess that
\* was spawned ends and every promise a validator returned settles (the
\* hypothesis of the termination claim); the runtime ends a process whose
\* main module has rejected.  The caller is free not to call check again.
Fairness ==
  /\ WF_vars(StartItem)
  /\ WF_vars(\E n \in DOMAIN list : ExecSettle(n))
  /\ WF_vars(\E n \in DOMAIN list : AfterSettle(n))
  /\ WF_vars(\E n \in DOMAIN list : OnFulfilled(n))
  /\ WF_vars(\E n \in DOMAIN list : OnRejected(n))
  /\ WF_vars(Resume)
  /\ WF_vars(Uncaught)

SpecLive == InitLive /\ [][Next]_vars /\ Fairness

\* ---------------------------------------------------------- main module
\* The main module: VERSION and the latest tag are written from newParts and
\* nowParts.  One of the three answers varies while the two others let
\* their check pass.
InitMain ==
  /\ vpc = "off"
  /\ vresult = FALSE
  /\ \/ /\ nowParts = V(1, 9, 0)
        /\ newParts = V(1, 10, 0)
        /\ \E ls \in LineSeqs, c \in {0, 1}, o \in {"", "Success"} :
             env = Env(PublishOk, ExecResult(c, o, JoinLines(ls)), ls,
                       GitAnswer(nowParts), TRUE)
     \/ /\ nowParts \in Triples \cup { << >> }
        /\ newParts \in Triples
        /\ \E r \in {PublishOk, PublishFailed} :
             env = Env(r, UpToDate, UpToDateLines, GitAnswer(nowParts), TRUE)
     \/ /\ nowParts = V(1, 9, 0)
        /\ newParts = V(1, 10, 0)
        /\ \E r \in PublishAnswers, g \in BOOLEAN :
             env = Env(r, UpToDate, UpToDateLines, GitAnswer(nowParts), g)
  /\ nowVersion = Tag(env.git.stdout)
  /\ newVersion = Join(newParts)
  /\ list = MainList(newVersion)
  /\ InitRun

\* if (import.meta.main) { await check(...) }
Main ==
  /\ ~exited
  /\ pc = "idle"
  /\ run = 0
  /\ run' = 1
  /\ i' = 1
  /\ pc' = "loop"
  /\ UNCHANGED << list, command, env, st, settle, exited, exitCode, trace,
                  out, spawned, afterCalls, prevSpawned, prevOut >>
  /\ UNCHANGED versionVars

\* check is called once, and it never rejects: every item has a command,
\* so a validator that throws makes p reject
NextMain ==
  \/ Main
  \/ StartItem
  \/ \E n \in DOMAIN list : ExecSettle(n)
  \/ \E n \in DOMAIN list : AfterSettle(n)
  \/ \E n \in DOMAIN list : OnFulfilled(n)
  \/ \E n \in DOMAIN list : OnRejected(n)
  \/ Resume
  \/ ProcessEnd

SpecMain == InitMain /\ [][NextMain]_vars

\* ------------------------------------------- calls of isUpdatedVersion
InitCheckIdle ==
  /\ list = << >>
  /\ command = << >>
  /\ env = Env(PublishOk, ExecResult(0, "", << >>), << >>,
               ExecResult(0, << >>, ""), TRUE)
  /\ pc = "idle"
  /\ run = 0
  /\ i = 0
  /\ st = << >>
  /\ settle = << >>
  /\ exited = FALSE
  /\ exitCode = 0
  /\ trace = << >>
  /\ out = << >>
  /\ spawned = << >>
  /\ afterCalls = << >>
  /\ prevSpawned = << >>
  /\ prevOut = << >>

InitVersion ==
  /\ nowParts \in PartSeqs
  /\ newParts \in PartSeqs
  /\ nowVersion = Join(nowParts)
  /\ newVersion = Join(newParts)
  /\ vpc = "input"
  /\ vresult = FALSE
  /\ InitCheckIdle

CallIsUpdatedVersion ==
  /\ vpc = "input"
  /\ vresult' = isUpdatedVersion(nowVersion, newVersion)
  /\ vpc' = "done"
  /\ UNCHANGED << nowParts, newParts, nowVersion, newVersion >>
  /\ UNCHANGED checkVars

NextVersion == CallIsUpdatedVersion

SpecVersion == InitVersion /\ [][NextVersion]_vars

\* ======================================================== properties: check
Last(s) == s[Len(s)]

\* positions of the trace, spawns and validator calls that belong to item n
EventsOf(n) == { k \in DOMAIN trace : trace[k].item = n }
SpawnsOf(n) == { k \in DOMAIN spawned : spawned[k].item = n }
CallsOf(n) == { k \in DOMAIN afterCalls : afterCalls[k].item = n }

HasEvent(ev, n) == \E k \in DOMAIN trace : trace[k] = Event(ev, n)

\* item n is between its start marker and the end of its handler
InProgress(n) == st[n] \in {"exec", "after", "resolved", "rejected"}

\* the program of item n could not be started
LaunchFailed(n) ==
  /\ SpawnsOf(n) # {}
  /\ st[n] # "exec"
  /\ ~Launchable(env, SpawnOf(n).program)

\* C1 - Fail-fast: once the promise of item n has rejected (launch failure or
\* rejection by the validator), no later item m > n has a start marker, a
\* spawn or a validator call in this run; and an error line of item n is the
\* last line written, with the process terminated with status 1.
C1_FailFast ==
  \A n \in DOMAIN list :
    /\ settle[n].type = "reject" =>
         \A m \in DOMAIN list :
           m > n => /\ EventsOf(m) = {}
                    /\ SpawnsOf(m) = {}
                    /\ CallsOf(m) = {}
                    /\ st[m] = "pending"
    /\ HasEvent("error", n) =>
         /\ exited
         /\ exitCode = 1
         /\ Last(trace) = Event("error", n)
         /\ Last(out) = ErrorLine(settle[n].msg)

\* the second of three items has failed
C1_Witness ==
  /\ Len(list) = 3
  /\ st[1] = "ok"
  /\ st[2] = "failed"
  /\ st[3] = "pending"
  /\ exited

\* C2 - Strict sequencing: at most one item is in progress; an item is
\* started only when every earlier item has completed with OK; the events of
\* a run are in list order; a spawn happens only when every earlier
\* subprocess is over; the validator of an item with a command is called
\* only after its subprocess has completed.
C2_StrictSequencing ==
  /\ Cardinality({ n \in DOMAIN list : InProgress(n) }) <= 1
  /\ \A n, m \in DOMAIN list :
       (n < m /\ st[m] # "pending") => st[n] = "ok"
  /\ \A k, j \in DOMAIN trace : k < j => trace[k].item <= trace[j].item
  /\ \A k, j \in DOMAIN trace :
       (k < j /\ trace[k].ev = "spawn" /\ trace[j].ev = "spawn") =>
         \E d \in (k + 1)..(j - 1) :
           /\ trace[d].item = trace[k].item
           /\ trace[d].ev \in {"done", "launchfail"}
  /\ \A j \in DOMAIN trace :
       (trace[j].ev = "after" /\ command[trace[j].item].present) =>
         \E d \in 1..(j - 1) : trace[d] = Event("done", trace[j].item)

\* the second item's subprocess is running after the first item, which ran
\* a command too, completed
C2_Witness ==
  /\ Len(list) >= 2
  /\ st[1] = "ok"
  /\ SpawnsOf(1) # {}
  /\ st[2] = "exec"

\* C3 - Exit status mapping: a terminated process has status 0 or 1; it has
\* status 0 exactly when every item of the list completed with OK, and
\* status 1 when some item failed; check returns only when every item
\* completed with OK.
C3_ExitStatus ==
  /\ exited =>
       /\ exitCode \in {0, 1}
       /\ exitCode = 0 <=> \A n \in DOMAIN list : st[n] = "ok"
       /\ exitCode = 1 <=>
            \E n \in DOMAIN list : st[n] \in {"failed", "thrown"}
  /\ pc = "returned" => \A n \in DOMAIN list : st[n] = "ok"

\* a run of three items ended with status 1 at its last item
C3_Witness ==
  /\ exited
  /\ exitCode = 1
  /\ Len(list) = 3
  /\ st[3] = "failed"

\* C4 - Launch error: when the program of item n could not be started, item
\* n never gets an OK line, its command was spawned once only, and once its
\* handler has run the last line is the error line with the launch error's
\* message and the process has terminated with status 1.
C4_LaunchError ==
  \A n \in DOMAIN list :
    LaunchFailed(n) =>
      /\ st[n] \in {"rejected", "failed"}
      /\ ~HasEvent("ok", n)
      /\ Cardinality(SpawnsOf(n)) = 1
      /\ settle[n] = Reject(LaunchErrorMessage(SpawnOf(n).program))
      /\ st[n] = "failed" =>
           /\ exited
           /\ exitCode = 1
           /\ Last(out) = << "[Error] ", settle[n].msg >>

\* the program of the second item could not be started and the run is over
C4_Witness ==
  /\ Len(list) >= 2
  /\ LaunchFailed(2)
  /\ st[2] = "failed"
  /\ Last(out) = << "[Error] ", "Failed to spawn 'nosuch'" >>

\* C5 (as claimed) - Exactly-once validation: every item that was started
\* and is over has had its validator invoked exactly once in this run.
C5_ExactlyOnce ==
  \A n \in DOMAIN list :
    (st[n] # "pending" /\ ~InProgress(n)) => Cardinality(CallsOf(n)) = 1

\* C5 (amended) - the validator of a started item is invoked at most once in
\* a run: exactly once as soon as the item has no command or its subprocess
\* has completed, and never when its program could not be started.
C5_OnceUnlessLaunchFailed ==
  \A n \in DOMAIN list :
    /\ Cardinality(CallsOf(n)) <= 1
    /\ st[n] = "pending" => CallsOf(n) = {}
    /\ (st[n] \notin {"pending", "exec"}) =>
         (Cardinality(CallsOf(n)) = IF LaunchFailed(n) THEN 0 ELSE 1)

\* an item whose command ended with a non-zero code had its validator called
C5_Witness ==
  /\ Len(list) >= 1
  /\ st[1] = "ok"
  /\ SpawnsOf(1) # {}
  /\ Cardinality(CallsOf(1)) = 1
  /\ CallOf(1).result.code # 0

\* C6 - Command-less check: an item without `command` that was started has
\* no spawn, and its validator got {code: 0, stdout: "", stderr: ""}.
C6_CommandLess ==
  \A n \in DOMAIN list :
    (~command[n].present /\ st[n] # "pending") =>
      /\ SpawnsOf(n) = {}
      /\ ~HasEvent("spawn", n)
      /\ Cardinality(CallsOf(n)) = 1
      /\ CallOf(n).result = [code |-> 0, stdout |-> "", stderr |-> ""]

\* a command-less item with the validator of the JSR check has completed
C6_Witness ==
  /\ Len(list) >= 1
  /\ ~command[1].present
  /\ list[1].after = "jsr"
  /\ st[1] = "ok"

\* the first three components of a version are all there and all digits
ThreeNumeric(parts) ==
  Len(parts) >= 3 /\ \A k \in 1..3 : parts[k].numeric

\* one of the first three components is missing or has no digit
Malformed(parts) ==
  \E k \in 1..3 : k > Len(parts) \/ ~parts[k].hasDigit

\* what was spawned, without the item index
Invocations(sp) ==
  [k \in DOMAIN sp |-> [program |-> sp[k].program, args |-> sp[k].args]]

\* C7 (as claimed) - Reuse: when a second run of the same list is over, it
\* has spawned the same programs with the same arguments in the same order
\* as the first run, and written the same lines.
C7_Reuse ==
  (run = 2 /\ (pc = "returned" \/ exited)) =>
    /\ Invocations(spawned) = Invocations(prevSpawned)
    /\ out = prevOut

\* the program and arguments of `deno publish --dry-run`
IsPublish(sp) ==
  sp.program = "deno" /\ sp.args = << "publish", "--dry-run" >>

\* C11 - Default composition: the main module spawns `deno upgrade
\* --dry-run`, `git describe --tags --abbrev=0` and `deno publish --dry-run`
\* in that order, for the Deno version check, the VERSION check and the JSR
\* publish check; when `deno publish --dry-run` is spawned the OK lines of
\* the two other checks have been written, in that order, in this run.
C11_DefaultComposition ==
  /\ \A k \in DOMAIN spawned :
       Invocations(spawned)[k] =
         << [program |-> "deno", args |-> << "upgrade", "--dry-run" >>],
            [program |-> "git",
             args |-> << "describe", "--tags", "--abbrev=0" >>],
            [program |-> "deno", args |-> << "publish", "--dry-run" >>] >>[k]
  /\ \A k \in DOMAIN trace :
       trace[k].ev = "start" =>
         list[trace[k].item].name =
           << "Deno version check", "VERSION check",
              "JSR Publish check" >>[trace[k].item]
  /\ \A k \in DOMAIN spawned :
       IsPublish(spawned[k]) =>
         /\ Len(out) >= 5
         /\ out[1] = HeaderLine("Deno version check")
         /\ out[2] = << "OK ... ", "Deno version check", ": ",
                        "This deno version is latest" >>
         /\ out[3] = HeaderLine("VERSION check")
         /\ out[5] = << "OK ... ", "VERSION check" >>
         /\ \E a, b, c \in DOMAIN trace :
              /\ a < b /\ b < c
              /\ trace[a].ev = "ok" /\ list[trace[a].item].after = "denoVersion"
              /\ trace[b].ev = "ok" /\ list[trace[b].item].after = "version"
              /\ trace[c].ev = "spawn" /\ trace[c].item = spawned[k].item

\* the publish dry-run is running after the two other checks passed
C11_Witness ==
  /\ Len(spawned) = 3
  /\ IsPublish(spawned[3])
  /\ st = << "ok", "ok", "exec" >>

\* version a is greater than version b in (major, minor, patch) order
Greater(a, b) ==
  \E k \in 1..3 :
    /\ a[k].value > b[k].value
    /\ \A j \in 1..(k - 1) : a[j].value = b[j].value

\* C14 (as claimed) - VERSION check: with a tag v<X>.<Y>.<Z> and a VERSION
\* of three numbers, the validator of createVersionChecker resolves when
\* VERSION is greater than the tag in (major, minor, patch) order and
\* rejects with "VERSION is not updated..." when it is equal or lower.
C14_VersionCheck ==
  \A n \in DOMAIN list :
    ( /\ list[n].after = "version"
      /\ st[n] \in {"resolved", "rejected", "ok", "failed"}
      /\ CallsOf(n) # {}
      /\ ThreeNumeric(nowParts)
      /\ ThreeNumeric(newParts) ) =>
      settle[n] = IF Greater(newParts, nowParts)
                    THEN Resolve(TRUE, "")
                    ELSE Reject(NotUpdatedMessage)

\* C15 - JSR publish check: the validator of createJsrPublishChecker
\* resolves without message exactly when the exit code of the command is 0,
\* and otherwise rejects with the stderr of the command as message,
\* whatever its stdout; the OK line or the error line says so.
C15_JsrPublishCheck ==
  \A n \in DOMAIN list :
    (list[n].after = "jsr" /\ CallsOf(n) # {}) =>
      /\ CallOf(n).result = env.publish
      /\ st[n] \in {"resolved", "rejected", "ok", "failed"} =>
           /\ settle[n].type = "resolve" <=> env.publish.code = 0
           /\ settle[n].type = "resolve" => settle[n].void
           /\ settle[n].type = "reject" =>
                settle[n].msg = env.publish.stderr
      /\ st[n] = "ok" =>
           Last(out) = << "OK ... ", "JSR Publish check" >>
      /\ st[n] = "failed" =>
           Last(out) = << "[Error] ", env.publish.stderr >>

\* the dry-run ended with code 2 and something on stdout
C15_Witness ==
  /\ Len(list) = 3
  /\ st[3] = "failed"
  /\ env.publish = ExecResult(2, "Success", "error: publish failed")
  /\ Last(out) = << "[Error] ", "error: publish failed" >>

\* the lines of the stderr of `deno upgrade` that tell a version
FoundLines == { k \in DOMAIN env.lines : env.lines[k].found }

\* C16 - Deno version check: the validator of createDenoVersionChecker
\* rejects exactly when some line of stderr is a "Found latest stable
\* version ... v<digits and dots>" line, with the version of the last such
\* line in its message; otherwise it resolves with "This deno version is
\* latest"; whatever the exit code and the stdout.
C16_DenoVersionCheck ==
  \A n \in DOMAIN list :
    ( /\ list[n].after = "denoVersion"
      /\ st[n] \in {"resolved", "rejected", "ok", "failed"} ) =>
      /\ CallOf(n).result = env.upgrade
      /\ settle[n] =
           IF FoundLines = {}
             THEN Resolve(FALSE, "This deno version is latest")
             ELSE LET last == CHOOSE k \in FoundLines :
                                \A j \in FoundLines : j <= k
                  IN Reject(<< "Found latest version: ",
                               env.lines[last].version,
                               "\nExec 'deno upgrade'" >>)

\* two lines tell a version, with exit code 1 and something on stdout
C16_Witness ==
  /\ Len(list) = 3
  /\ st[1] = "failed"
  /\ Cardinality(FoundLines) = 2
  /\ env.lines[1].version # env.lines[2].version
  /\ env.upgrade.code = 1
  /\ env.upgrade.stdout = "Success"

\* C12 (as claimed) - Message propagation: the completion line of an item
\* whose validator resolved with a string m, whatever m, is
\* "OK ... <name>: <m>"; with no message it is "OK ... <name>".
C12_MessagePropagation ==
  \A n \in DOMAIN list :
    (Len(trace) > 0 /\ Last(trace) = Event("ok", n)) =>
      Last(out) = IF settle[n].void
                    THEN << "OK ... ", list[n].name >>
                    ELSE << "OK ... ", list[n].name, ": ", settle[n].msg >>

\* C12 (amended) - the completion line of an item whose validator resolved
\* with a non-empty string m is "OK ... <name>: <m>"; with no message, or
\* with the empty string, it is "OK ... <name>".
C12_NonEmptyMessage ==
  \A n \in DOMAIN list :
    (Len(trace) > 0 /\ Last(trace) = Event("ok", n)) =>
      Last(out) = IF settle[n].void \/ settle[n].msg = ""
                    THEN << "OK ... ", list[n].name >>
                    ELSE << "OK ... ", list[n].name, ": ", settle[n].msg >>

\* the second item resolved with "fine" and its line has just been written
C12_Witness ==
  /\ Len(list) >= 2
  /\ Len(trace) > 0
  /\ Last(trace) = Event("ok", 2)
  /\ settle[2] = Resolve(FALSE, "fine")
  /\ Last(out) = << "OK ... ", "msg check", ": ", "fine" >>

\* number of events ev of item n in this run
CountEvents(ev, n) ==
  Cardinality({ k \in DOMAIN trace : trace[k] = Event(ev, n) })

\* C13 (as claimed) - Per-item output protocol: the start marker of an item
\* comes before its spawn and before its validator call; an item never has
\* both an OK line and an Error line; when the run is over (check has
\* returned or the process has terminated) every item that was started has
\* exactly one of them; the events of different items are not interleaved.
C13_OutputProtocol ==
  /\ \A k \in DOMAIN trace :
       trace[k].ev \in {"spawn", "after"} =>
         \E j \in 1..(k - 1) : trace[j] = Event("start", trace[k].item)
  /\ \A n \in DOMAIN list :
       /\ CountEvents("ok", n) + CountEvents("error", n) <= 1
       /\ (st[n] # "pending" /\ (exited \/ pc = "returned")) =>
            CountEvents("ok", n) + CountEvents("error", n) = 1
  /\ \A k, j \in DOMAIN trace : k < j => trace[k].item <= trace[j].item

\* C17 - Termination: an item has at most one start marker per run, and a
\* run that is in its loop leads to the end of the run: check returns or
\* rejects, or the process terminates.
C17_Termination ==
  /\ [](\A n \in DOMAIN list : CountEvents("start", n) <= 1)
  /\ (pc = "loop") ~> (pc \in {"returned", "rejected"} \/ exited)

\* a run of two items has returned
C17_Witness ==
  /\ Len(list) = 2
  /\ pc = "returned"
  /\ \A n \in DOMAIN list : CountEvents("start", n) = 1

\* C18 (as claimed) - Frame: the command of every CheckItem is, at every
\* moment of a run and after it, the sequence the item was constructed with.
C18_Frame ==
  \A n \in DOMAIN list : command[n] = list[n].command

\* C20 (as claimed) - Uniform failure path: when the validator of an item
\* has thrown, with or without a command, no later item is started, and once
\* the process has terminated the error line of the item has been written
\* through exit and the status is 1.
C20_UniformFailure ==
  \A n \in DOMAIN list :
    (CallsOf(n) # {} /\ After(list[n], CallOf(n).result).type = "throw") =>
      /\ \A m \in DOMAIN list : m > n => st[m] = "pending"
      /\ exited => (HasEvent("error", n) /\ exitCode = 1)

\* ============================================ properties: isUpdatedVersion
\* C8 - Comparator scan: for versions whose first three components are
\* numbers, the result is true exactly when at some of the three indices the
\* current number is less than the candidate's, whatever the other indices
\* and whatever follows the third component.
C8_Scan ==
  (vpc = "done" /\ ThreeNumeric(nowParts) /\ ThreeNumeric(newParts)) =>
    (vresult <=> \E k \in 1..3 : nowParts[k].value < newParts[k].value)

\* 1.9.0 -> 1.10.0 is reported newer
C8_Witness ==
  /\ vpc = "done"
  /\ nowVersion = << "1", ".", "9", ".", "0" >>
  /\ newVersion = << "1", ".", "1", "0", ".", "0" >>
  /\ vresult = TRUE

\* C9 - Equal versions: isUpdatedVersion(v, v) is false for every v.
C9_EqualNotNewer ==
  (vpc = "done" /\ nowVersion = newVersion) => vresult = FALSE

\* a malformed version compared with itself
C9_Witness ==
  /\ vpc = "done"
  /\ nowVersion = << "1", ".", "x", ".", "9" >>
  /\ newVersion = nowVersion
  /\ vresult = FALSE

\* C10 (as claimed) - Malformed versions: when one of the arguments is
\* malformed the result is false.
C10_MalformedNotNewer ==
  (vpc = "done" /\ (Malformed(nowParts) \/ Malformed(newParts))) =>
    vresult = FALSE

\* index k is one where both versions have a component with a digit
Comparable(k) ==
  /\ k <= Len(nowParts) /\ nowParts[k].hasDigit
  /\ k <= Len(newParts) /\ newParts[k].hasDigit

\* C10 (amended) - a malformed component never compares as newer: the result
\* is true exactly when at one of the three indices both versions have a
\* component with a digit and the current number is less than the
\* candidate's; it is false when no index has that.
C10_MalformedComponent ==
  vpc = "done" =>
    (vresult <=> \E k \in 1..3 :
                   Comparable(k) /\ nowParts[k].value < newParts[k].value)

\* a malformed current version whose first component still compares as older
C10_Witness ==
  /\ vpc = "done"
  /\ nowVersion = << "1", ".", "x", ".", "0" >>
  /\ newVersion = << "9", ".", "0", ".", "0" >>
  /\ vresult = TRUE

\* C19 (as claimed) - Asymmetry: for versions of three numbers,
\* isUpdatedVersion(a, b) and isUpdatedVersion(b, a) are never both true.
C19_Asymmetry ==
  (vpc = "done" /\ ThreeNumeric(nowParts) /\ ThreeNumeric(newParts)) =>
    ~(vresult /\ isUpdatedVersion(newVersion, nowVersion))

====
